---- MODULE Spec2Model ----
(***************************************************************************)
(* State-machine model of the graph_mvcc crate (src/src/lib.rs): the       *)
(* Graph struct, the client-held TransactionId handles, and the inherent   *)
(* operations start_transaction, add_node, add_edge, get_nodes_internal,   *)
(* add_record, delete_record, update_record, commit_transaction and        *)
(* abort_transaction, and the IGraph interface.                            *)
(***************************************************************************)
EXTENDS Integers, Sequences, FiniteSets, TLC

(* ------------------------------ bounds --------------------------------- *)
MaxTx == 3
MaxNodes == 3
MaxEdges == 2
MaxPath == 2
MaxRecords == 1
MaxElement == 1
MaxCalls == 7
MaxSetupCalls == 6
MaxRecordElement == 2
MaxRecordCalls == 8

EdgeTypes == {"red", "blue"}
NODE_CREATION == "NODE_CREATION"

ElementIds == 1..MaxElement
RecordElementIds == 1..MaxRecordElement
SearchPaths == UNION {[1..n -> EdgeTypes] : n \in 0..MaxPath}

(* ------------------------------- state --------------------------------- *)
VARIABLES
    nodes,                \* Graph.nodes: the minted nodes (keys of the map)
    adjacencylist,        \* Graph.adjacencylist: node -> Vec<(Node, Edge)>
    next_transaction_id,  \* Graph.next_transaction_id
    active_transactions,  \* Graph.active_transactions
    records,              \* Graph.records
    transactions,         \* the TransactionId handles held by the clients
    minted,               \* history: edge id -> the add_edge call that minted it
    began_with,           \* history: txid -> active set when it was started
    outcome,              \* history: txid -> how it was retired
    refused,              \* history: txid -> its latest add_edge call refused while active
    read_slots,           \* history: txid -> slots it read with get_nodes while active
    calls,                \* history: number of calls made since the initial state
    begun,                \* history: the engine as the latest start_transaction found it
    implicit,             \* history: txids the IGraph calls issued for themselves
    last                  \* the last call and what it returned

vars == <<nodes, adjacencylist, next_transaction_id, active_transactions,
          records, transactions, minted, began_with, outcome, refused,
          read_slots, calls, begun, implicit, last>>

(* a call: the operation, the handle it was made with, whether that handle's
   txid was in the active set when the call was made, the arguments and the
   value returned.  For add_edge, found is the edge list of the source node
   as the call found it; for get_nodes, walked is the adjacency entries the
   traversal stepped over and out the nodes returned. *)
NoCall == [op |-> "new", tx |-> 0, live |-> FALSE, a |-> 0, b |-> 0, ty |-> "",
           path |-> <<>>, res |-> "Ok", out |-> <<>>, walked |-> <<>>,
           found |-> <<>>]

Call(op, t, res) ==
    [NoCall EXCEPT !.op = op, !.tx = t, !.live = t \in active_transactions,
                   !.res = res]

(* the fields of Graph *)
EngineView ==
    [nodes |-> nodes, adjacencylist |-> adjacencylist,
     next_transaction_id |-> next_transaction_id,
     active_transactions |-> active_transactions, records |-> records]

(* TransactionId::new *)
NewTransactionId ==
    [rollback_actions |-> {}, read_locks |-> {}, snapshot |-> <<>>]

(* Graph::new *)
Init ==
    /\ nodes = {}
    /\ adjacencylist = <<>>
    /\ next_transaction_id = 0
    /\ active_transactions = {}
    /\ records = {}
    /\ transactions = <<>>
    /\ minted = <<>>
    /\ began_with = <<>>
    /\ outcome = <<>>
    /\ refused = <<>>
    /\ read_slots = <<>>
    /\ calls = 0
    /\ begun = [txid |-> 0, calls |-> 0, engine |-> EngineView]
    /\ implicit = {}
    /\ last = NoCall

(* --------------------------- visibility -------------------------------- *)
(* Graph::record_is_visible, over the live active set *)
record_is_visible(t, record) ==
    /\ ~(record.creator \in active_transactions /\ record.creator # t)
    /\ ~(/\ record.expirer # 0
         /\ (record.expirer \notin active_transactions \/ record.creator = t))

(* Graph::create_snapshot *)
create_snapshot(t) == {r \in records : record_is_visible(t, r)}

(* the `if t.snapshot.is_none() { t.snapshot = Some(create_snapshot) }` prologue *)
EnsureSnapshot(t, h) ==
    IF h.snapshot = <<>> THEN [h EXCEPT !.snapshot = <<create_snapshot(t)>>] ELSE h

(* ----------------------------- traversal ------------------------------- *)
EdgeList(node) == IF node \in DOMAIN adjacencylist THEN adjacencylist[node] ELSE <<>>

(* TypePath::next, iterated until it yields None: the adjacency entries the
   iterator steps over.  Each step pops the LAST type of type_list and looks
   at the FIRST entry of the current node's edge list only. *)
RECURSIVE TypePathWalk(_, _)
TypePathWalk(node, type_list) ==
    IF node \notin DOMAIN adjacencylist \/ type_list = <<>> THEN <<>>
    ELSE LET entry == Head(adjacencylist[node])
             current_type == type_list[Len(type_list)]
             rest == SubSeq(type_list, 1, Len(type_list) - 1)
         IN IF entry.edgetype = current_type
            THEN <<entry>> \o TypePathWalk(entry.node, rest)
            ELSE <<>>

(* Graph::traverse_with_snapshot: type_path.into_iter().collect() *)
traverse_with_snapshot(t, origin, search_path) ==
    LET walk == TypePathWalk(origin, search_path)
    IN [i \in 1..Len(walk) |-> walk[i].node]

(* ------------------------------ collisions ----------------------------- *)
(* the comparison of the destination turned round: `dest == to` *)
has_collision_same_destination(from, to, edge_type) ==
    \E i \in DOMAIN EdgeList(from) :
        /\ EdgeList(from)[i].node = to
        /\ EdgeList(from)[i].edgetype = edge_type

(* the edge type left out of the comparison *)
has_collision_any_type(from, to, edge_type) ==
    \E i \in DOMAIN EdgeList(from) : EdgeList(from)[i].node # to

(* Graph::has_collision_excluding_destination *)
has_collision_excluding_destination(from, to, edge_type) ==
    \E i \in DOMAIN EdgeList(from) :
        /\ EdgeList(from)[i].node # to
        /\ EdgeList(from)[i].edgetype = edge_type

(* the half is pushed only from the smaller node to the larger: the reverse
   half of add_edge(a, b, ..) with a < b is dropped *)
set_directed_edge_one_way(adj, from, to, edge) ==
    LET old == IF from \in DOMAIN adj THEN adj[from] ELSE <<>>
        entry == [node |-> to, id |-> edge.id, edgetype |-> edge.edgetype]
    IN [n \in DOMAIN adj \cup {from} |->
           IF n = from /\ from <= to THEN Append(old, entry)
           ELSE IF n \in DOMAIN adj THEN adj[n] ELSE <<>>]

(* Graph::set_directed_edge: push (to, edge) on from's list *)
set_directed_edge(adj, from, to, edge) ==
    LET old == IF from \in DOMAIN adj THEN adj[from] ELSE <<>>
        entry == [node |-> to, id |-> edge.id, edgetype |-> edge.edgetype]
    IN [n \in DOMAIN adj \cup {from} |->
           IF n = from THEN Append(old, entry) ELSE adj[n]]

(* Edge::new: a fresh edge id (ids are minted in sequence) *)
NewEdge(edge_type) == [id |-> Len(minted) + 1, edgetype |-> edge_type]

(* Node::new: a fresh node id *)
NewNode == Cardinality(nodes) + 1

(* --------------------------- commit validation ------------------------- *)
(* Graph::has_conflicting_write: node_id and edge_type are not consulted *)
has_conflicting_write(t, node_id, edge_type) ==
    \E record \in records :
        /\ record.creator # t
        /\ record.creator > t
        /\ record.expirer = 0

(* Graph::has_read_lock_conflicts *)
has_read_lock_conflicts(t, h) ==
    \E lock \in h.read_locks : has_conflicting_write(t, lock[1], lock[2])

(* Graph::set_transaction_expiration: the record at position pos is cloned,
   the clone is edited and dropped; the store is returned as it was *)
set_transaction_expiration(recs, pos, n) == recs

(* Graph::rollback_transaction: the store after every undo action of the
   handle has been applied (the order of application is immaterial, each
   application leaving the store as it was) *)
RECURSIVE rollback_records(_, _, _)
rollback_records(recs, actions, t) ==
    IF actions = {} THEN recs
    ELSE LET action == CHOOSE x \in actions : TRUE
             undone == IF action[1] = "AddElementToTransaction"
                       THEN set_transaction_expiration(recs, action[2], 0)
                       ELSE set_transaction_expiration(recs, action[2], t)
         IN rollback_records(undone, actions \ {action}, t)

(* ------------------------------- actions ------------------------------- *)
Handles == DOMAIN transactions

(* the smallest id that was retired is issued again, the counter advancing
   only when every id issued is active still *)
StartTransaction_reissuing ==
    LET retired == {u \in Handles : u \notin active_transactions}
        txid == IF retired = {} THEN next_transaction_id + 1
                ELSE CHOOSE u \in retired : \A v \in retired : u <= v
        put(history, value) ==
            IF retired = {} THEN Append(history, value)
            ELSE [history EXCEPT ![txid] = value]
    IN /\ next_transaction_id < MaxTx
       /\ next_transaction_id' = IF retired = {} THEN txid
                                 ELSE next_transaction_id
       /\ active_transactions' = active_transactions \cup {txid}
       /\ transactions' = put(transactions, NewTransactionId)
       /\ began_with' = put(began_with, active_transactions)
       /\ outcome' = put(outcome, "active")
       /\ refused' = put(refused, <<>>)
       /\ read_slots' = put(read_slots, {})
       /\ last' = [Call("start_transaction", txid, "Ok") EXCEPT !.live = TRUE]
       /\ UNCHANGED <<nodes, adjacencylist, records, minted>>

(* the counter is advanced by two: an id is passed over *)
StartTransaction_skipping ==
    /\ next_transaction_id < MaxTx
    /\ next_transaction_id' = next_transaction_id + 2
    /\ active_transactions' = active_transactions \cup {next_transaction_id'}
    /\ transactions' = Append(transactions, NewTransactionId)
    /\ began_with' = Append(began_with, active_transactions)
    /\ outcome' = Append(outcome, "active")
    /\ refused' = Append(refused, <<>>)
    /\ read_slots' = Append(read_slots, {})
    /\ last' = [Call("start_transaction", next_transaction_id', "Ok")
                    EXCEPT !.live = TRUE]
    /\ UNCHANGED <<nodes, adjacencylist, records, minted>>

(* Graph::start_transaction *)
StartTransaction ==
    /\ next_transaction_id < MaxTx
    /\ next_transaction_id' = next_transaction_id + 1
    /\ active_transactions' = active_transactions \cup {next_transaction_id'}
    /\ transactions' = Append(transactions, NewTransactionId)
    /\ began_with' = Append(began_with, active_transactions)
    /\ outcome' = Append(outcome, "active")
    /\ refused' = Append(refused, <<>>)
    /\ read_slots' = Append(read_slots, {})
    /\ last' = [Call("start_transaction", next_transaction_id', "Ok")
                    EXCEPT !.live = TRUE]
    /\ UNCHANGED <<nodes, adjacencylist, records, minted>>

(* the node is minted without its creation lock *)
AddNode_without_lock(t) ==
    /\ Cardinality(nodes) < MaxNodes
    /\ LET h == EnsureSnapshot(t, transactions[t])
           node == NewNode
       IN /\ nodes' = nodes \cup {node}
          /\ transactions' = [transactions EXCEPT ![t] = h]
          /\ last' = [Call("add_node", t, "Ok") EXCEPT !.a = node]
    /\ UNCHANGED <<adjacencylist, next_transaction_id, active_transactions,
                   records, minted, began_with, outcome, refused, read_slots>>

(* Graph::add_node *)
AddNode(t) ==
    /\ Cardinality(nodes) < MaxNodes
    /\ LET h == EnsureSnapshot(t, transactions[t])
           node == NewNode
       IN /\ nodes' = nodes \cup {node}
          /\ transactions' = [transactions EXCEPT ![t] =
                 [h EXCEPT !.read_locks = @ \cup {<<node, NODE_CREATION>>}]]
          /\ last' = [Call("add_node", t, "Ok") EXCEPT !.a = node]
    /\ UNCHANGED <<adjacencylist, next_transaction_id, active_transactions,
                   records, minted, began_with, outcome, refused, read_slots>>

(* the read locks are inserted before the collision check *)
AddEdge_locks_first(t, from, to, edge_type) ==
    LET h == EnsureSnapshot(t, transactions[t])
        minted_edge == NewEdge(edge_type)
    IN /\ IF has_collision_excluding_destination(from, to, edge_type)
          THEN /\ transactions' = [transactions EXCEPT ![t] =
                      [h EXCEPT !.read_locks =
                          @ \cup {<<from, edge_type>>, <<to, edge_type>>}]]
               /\ refused' = IF t \in active_transactions
                             THEN [refused EXCEPT ![t] = <<from, to, edge_type>>]
                             ELSE refused
               /\ last' = [Call("add_edge", t, "Collision") EXCEPT
                               !.a = from, !.b = to, !.ty = edge_type,
                               !.found = EdgeList(from)]
               /\ UNCHANGED <<adjacencylist, minted>>
          ELSE /\ Len(minted) < MaxEdges
               /\ transactions' = [transactions EXCEPT ![t] =
                      [h EXCEPT !.read_locks =
                          @ \cup {<<from, edge_type>>, <<to, edge_type>>}]]
               /\ adjacencylist' =
                      set_directed_edge(
                          set_directed_edge(adjacencylist, from, to, minted_edge),
                          to, from, minted_edge)
               /\ minted' = Append(minted,
                      [tx |-> t, live |-> t \in active_transactions,
                       from |-> from, to |-> to, edgetype |-> edge_type])
               /\ last' = [Call("add_edge", t, "Ok") EXCEPT
                               !.a = from, !.b = to, !.ty = edge_type,
                               !.found = EdgeList(from)]
               /\ UNCHANGED refused
       /\ UNCHANGED <<nodes, next_transaction_id, active_transactions, records,
                      began_with, outcome, read_slots>>

(* Graph::add_edge *)
AddEdge(t, from, to, edge_type) ==
    LET h == EnsureSnapshot(t, transactions[t])
        minted_edge == NewEdge(edge_type)
    IN /\ IF has_collision_excluding_destination(from, to, edge_type)
          THEN /\ transactions' = [transactions EXCEPT ![t] = h]
               /\ refused' = IF t \in active_transactions
                             THEN [refused EXCEPT ![t] = <<from, to, edge_type>>]
                             ELSE refused
               /\ last' = [Call("add_edge", t, "Collision") EXCEPT
                               !.a = from, !.b = to, !.ty = edge_type,
                               !.found = EdgeList(from)]
               /\ UNCHANGED <<adjacencylist, minted>>
          ELSE /\ Len(minted) < MaxEdges
               /\ transactions' = [transactions EXCEPT ![t] =
                      [h EXCEPT !.read_locks =
                          @ \cup {<<from, edge_type>>, <<to, edge_type>>}]]
               /\ adjacencylist' =
                      set_directed_edge(
                          set_directed_edge(adjacencylist, from, to, minted_edge),
                          to, from, minted_edge)
               /\ minted' = Append(minted,
                      [tx |-> t, live |-> t \in active_transactions,
                       from |-> from, to |-> to, edgetype |-> edge_type])
               /\ last' = [Call("add_edge", t, "Ok") EXCEPT
                               !.a = from, !.b = to, !.ty = edge_type,
                               !.found = EdgeList(from)]
               /\ UNCHANGED refused
       /\ UNCHANGED <<nodes, next_transaction_id, active_transactions, records,
                      began_with, outcome, read_slots>>

(* Graph::get_nodes_internal *)
GetNodes(t, origin, search_path) ==
    LET slots == {<<origin, search_path[i]>> : i \in DOMAIN search_path}
        locked == [transactions[t] EXCEPT !.read_locks = @ \cup slots]
        h == EnsureSnapshot(t, locked)
    IN /\ transactions' = [transactions EXCEPT ![t] = h]
       /\ read_slots' = IF t \in active_transactions
                        THEN [read_slots EXCEPT ![t] = @ \cup slots]
                        ELSE read_slots
       /\ last' = [Call("get_nodes", t, "Ok") EXCEPT
                       !.a = origin, !.path = search_path,
                       !.out = traverse_with_snapshot(t, origin, search_path),
                       !.walked = TypePathWalk(origin, search_path)]
       /\ UNCHANGED <<nodes, adjacencylist, next_transaction_id,
                      active_transactions, records, minted, began_with,
                      outcome, refused>>

(* Graph::add_record *)
add_record(recs, h, t, element) ==
    LET record == [creator |-> t, expirer |-> 0, element |-> element]
        action == <<"DeleteElementFromTransaction", Cardinality(recs)>>
    IN [records |-> recs \cup {record},
        handle |-> [h EXCEPT !.rollback_actions = @ \cup {action}]]

(* a call of Graph::add_record with a record that holds an ElementId *)
AddRecordCall(t, element) ==
    LET added == add_record(records, transactions[t], t, element)
    IN /\ transactions' = [transactions EXCEPT ![t] = added.handle]
       /\ records' = added.records
       /\ last' = [Call("add_record", t, "Ok") EXCEPT !.a = element]
       /\ UNCHANGED <<nodes, adjacencylist, next_transaction_id,
                      active_transactions, minted, began_with, outcome, refused,
                      read_slots>>

(* Graph::add_record, while the store has room *)
AddRecord(t, element) ==
    /\ Cardinality(records) < MaxRecords
    /\ AddRecordCall(t, element)

(* the order of BTreeSet<BTreeMap<MVCC, u32>>: the maps are compared entry by
   entry in the order of their keys, TransactionCreationId first, then
   TransactionExpirationId, then ElementId *)
RecordLess(x, y) ==
    \/ x.creator < y.creator
    \/ x.creator = y.creator /\ x.expirer < y.expirer
    \/ x.creator = y.creator /\ x.expirer = y.expirer /\ x.element < y.element

(* the index `i` of a record in `self.records.iter().enumerate()` *)
Position(recs, record) == Cardinality({x \in recs : RecordLess(x, record)})

(* no record is ever locked *)
row_is_locked_never(record) == FALSE

(* Graph::row_is_locked *)
row_is_locked(record) ==
    record.expirer # 0 /\ record.expirer \in active_transactions

(* Graph::delete_record.  BTreeSet::replace puts the expired clone into the
   set next to the record it was cloned from, the two being unequal. *)
delete_record(recs, h, t, id) ==
    LET matching == {r \in recs : record_is_visible(t, r) /\ r.element = id}
        records_to_update == {r \in matching : ~row_is_locked(r)}
    IN IF \E r \in matching : row_is_locked(r)
       THEN [res |-> "TransactionLocked", records |-> recs, handle |-> h]
       ELSE IF records_to_update = {}
       THEN [res |-> "ElementNotFound", records |-> recs, handle |-> h]
       ELSE [res |-> "Ok",
             records |-> recs \cup {[r EXCEPT !.expirer = t] :
                                       r \in records_to_update},
             handle |-> [h EXCEPT !.rollback_actions = @ \cup
                            {<<"AddElementToTransaction", Position(recs, r)>> :
                                 r \in records_to_update}]]

(* Graph::update_record *)
update_record(recs, h, t, id) ==
    LET deleted == delete_record(recs, h, t, id)
        added == add_record(deleted.records, deleted.handle, t, id)
    IN IF deleted.res # "Ok" THEN deleted
       ELSE [res |-> "Ok", records |-> added.records, handle |-> added.handle]

(* a call of Graph::delete_record *)
DeleteRecord(t, id) ==
    LET deleted == delete_record(records, transactions[t], t, id)
    IN /\ transactions' = [transactions EXCEPT ![t] = deleted.handle]
       /\ records' = deleted.records
       /\ last' = [Call("delete_record", t, deleted.res) EXCEPT !.a = id]
       /\ UNCHANGED <<nodes, adjacencylist, next_transaction_id,
                      active_transactions, minted, began_with, outcome, refused,
                      read_slots>>

(* a call of Graph::update_record *)
UpdateRecord(t, id) ==
    LET updated == update_record(records, transactions[t], t, id)
    IN /\ transactions' = [transactions EXCEPT ![t] = updated.handle]
       /\ records' = updated.records
       /\ last' = [Call("update_record", t, updated.res) EXCEPT !.a = id]
       /\ UNCHANGED <<nodes, adjacencylist, next_transaction_id,
                      active_transactions, minted, began_with, outcome, refused,
                      read_slots>>

(* Abort is returned without the rollback: the txid stays in the active set *)
CommitTransaction_without_rollback(t) ==
    LET h == transactions[t]
        conflict == has_read_lock_conflicts(t, h)
    IN /\ records' = records
       /\ active_transactions' = IF conflict THEN active_transactions
                                 ELSE active_transactions \ {t}
       /\ outcome' = [outcome EXCEPT ![t] =
              IF @ # "active" THEN @
              ELSE IF conflict THEN "aborted" ELSE "committed"]
       /\ last' = Call("commit_transaction", t, IF conflict THEN "Abort" ELSE "Ok")
       /\ UNCHANGED <<nodes, adjacencylist, next_transaction_id, transactions,
                      minted, began_with, refused, read_slots>>

(* a successful commit takes the records of the transaction out of the store *)
CommitTransaction_dropping_records(t) ==
    LET h == transactions[t]
        conflict == has_read_lock_conflicts(t, h)
    IN /\ records' = IF conflict
                     THEN rollback_records(records, h.rollback_actions, t)
                     ELSE {r \in records : r.creator # t}
       /\ active_transactions' = active_transactions \ {t}
       /\ outcome' = [outcome EXCEPT ![t] =
              IF @ # "active" THEN @
              ELSE IF conflict THEN "aborted" ELSE "committed"]
       /\ last' = Call("commit_transaction", t, IF conflict THEN "Abort" ELSE "Ok")
       /\ UNCHANGED <<nodes, adjacencylist, next_transaction_id, transactions,
                      minted, began_with, refused, read_slots>>

(* Graph::commit_transaction *)
CommitTransaction(t) ==
    LET h == transactions[t]
        conflict == has_read_lock_conflicts(t, h)
    IN /\ records' = IF conflict
                     THEN rollback_records(records, h.rollback_actions, t)
                     ELSE records
       /\ active_transactions' = active_transactions \ {t}
       /\ outcome' = [outcome EXCEPT ![t] =
              IF @ # "active" THEN @
              ELSE IF conflict THEN "aborted" ELSE "committed"]
       /\ last' = Call("commit_transaction", t, IF conflict THEN "Abort" ELSE "Ok")
       /\ UNCHANGED <<nodes, adjacencylist, next_transaction_id, transactions,
                      minted, began_with, refused, read_slots>>

(* Graph::abort_transaction *)
AbortTransaction(t) ==
    /\ records' = rollback_records(records, transactions[t].rollback_actions, t)
    /\ active_transactions' = active_transactions \ {t}
    /\ outcome' = [outcome EXCEPT ![t] = IF @ # "active" THEN @ ELSE "aborted"]
    /\ last' = Call("abort_transaction", t, "Ok")
    /\ UNCHANGED <<nodes, adjacencylist, next_transaction_id, transactions,
                   minted, began_with, refused, read_slots>>

(* one more call, within a budget of calls *)
Count(budget) == calls < budget /\ calls' = calls + 1

(* one more call of the inherent methods, the history of the IGraph calls
   left as it is *)
Tick(budget) == Count(budget) /\ UNCHANGED <<begun, implicit>>

(* one call of a client on the engine, made with one of the handles given *)
Step(budget, handles) ==
    \/ Tick(budget) /\ StartTransaction
    \/ \E t \in handles : Tick(budget) /\ AddNode(t)
    \/ \E t \in handles, from \in nodes, to \in nodes, ty \in EdgeTypes :
           Tick(budget) /\ AddEdge(t, from, to, ty)
    \/ \E t \in handles, origin \in nodes, p \in SearchPaths :
           Tick(budget) /\ GetNodes(t, origin, p)
    \/ \E t \in handles, e \in ElementIds : Tick(budget) /\ AddRecord(t, e)
    \/ \E t \in handles : Tick(budget) /\ CommitTransaction(t)
    \/ \E t \in handles : Tick(budget) /\ AbortTransaction(t)

(* clients may go on using a handle after its transaction was retired *)
Next == Step(MaxCalls, Handles)

Spec == Init /\ [][Next]_vars

(* The engine after the set-up the seed scenarios S2 and S3 start from:
   `t = start_transaction(); n1, n2, n3 = add_node(t); commit_transaction(t)` *)
SetupInit ==
    /\ nodes = {1, 2, 3}
    /\ adjacencylist = <<>>
    /\ next_transaction_id = 1
    /\ active_transactions = {}
    /\ records = {}
    /\ transactions =
           <<[rollback_actions |-> {},
              read_locks |-> {<<n, NODE_CREATION>> : n \in {1, 2, 3}},
              snapshot |-> <<{}>>]>>
    /\ minted = <<>>
    /\ began_with = <<{}>>
    /\ outcome = <<"committed">>
    /\ refused = << <<>> >>
    /\ read_slots = <<{}>>
    /\ calls = 0
    /\ begun = [txid |-> 0, calls |-> 0, engine |-> EngineView]
    /\ implicit = {}
    /\ last = [Call("commit_transaction", 1, "Ok") EXCEPT !.live = TRUE]

(* writers after the set-up: clients that call start_transaction, add_edge,
   add_record, commit_transaction and abort_transaction, and drop a handle
   once its transaction is retired *)
NextSetup ==
    \/ Tick(MaxSetupCalls) /\ StartTransaction
    \/ \E t \in active_transactions, from \in nodes, to \in nodes,
          ty \in EdgeTypes :
           Tick(MaxSetupCalls) /\ AddEdge(t, from, to, ty)
    \/ \E t \in active_transactions, e \in ElementIds :
           Tick(MaxSetupCalls) /\ AddRecord(t, e)
    \/ \E t \in active_transactions : Tick(MaxSetupCalls) /\ CommitTransaction(t)
    \/ \E t \in active_transactions : Tick(MaxSetupCalls) /\ AbortTransaction(t)

SpecSetup == SetupInit /\ [][NextSetup]_vars

(* the clients of the version store: start_transaction, add_record,
   delete_record, update_record, commit_transaction and abort_transaction *)
NextRecords ==
    \/ Tick(MaxRecordCalls) /\ StartTransaction
    \/ \E t \in Handles, e \in RecordElementIds :
           Tick(MaxRecordCalls) /\ AddRecordCall(t, e)
    \/ \E t \in Handles, e \in RecordElementIds :
           Tick(MaxRecordCalls) /\ DeleteRecord(t, e)
    \/ \E t \in Handles, e \in RecordElementIds :
           Tick(MaxRecordCalls) /\ UpdateRecord(t, e)
    \/ \E t \in Handles : Tick(MaxRecordCalls) /\ CommitTransaction(t)
    \/ \E t \in Handles : Tick(MaxRecordCalls) /\ AbortTransaction(t)

SpecRecords == Init /\ [][NextRecords]_vars

(* the set-up state is one the engine reaches from Graph::new() *)
SetupReached ==
    /\ nodes = {1, 2, 3}
    /\ next_transaction_id = 1
    /\ active_transactions = {}
    /\ outcome = <<"committed">>
    /\ transactions[1].read_locks = {<<n, NODE_CREATION>> : n \in {1, 2, 3}}
    /\ transactions[1].snapshot = <<{}>>
    /\ last.op = "commit_transaction" /\ last.live

(* ------------------------- the IGraph interface ------------------------ *)
MaxIGraphCalls == 5

(* transaction_id: None *)
None == 0

(* the NodeId values a client may supply, minted or not *)
NodeIds == 1..MaxNodes

(* the strings a client may supply as edge type *)
Labels == {"red", NODE_CREATION}

(* the handles the clients hold: those start_transaction returned to them *)
ClientHandles == Handles \ implicit

(* Graph::find_node_by_id(..).ok_or(NodeNotFound) *)
find_node_by_id(g, node_id) == node_id \in g.nodes

(* the temporary transaction is never committed: its txid stays active *)
IGraph_add_edge_leaking(g, src, dst, edge) ==
    IF ~find_node_by_id(g, src) \/ ~find_node_by_id(g, dst)
    THEN [res |-> "NodeNotFound", engine |-> g]
    ELSE LET temp_txid == g.next_transaction_id + 1
             started == [g EXCEPT !.next_transaction_id = temp_txid,
                                  !.active_transactions = @ \cup {temp_txid}]
             edges == IF src \in DOMAIN g.adjacencylist
                      THEN g.adjacencylist[src] ELSE <<>>
         IN IF \E i \in DOMAIN edges :
                   edges[i].node # dst /\ edges[i].edgetype = edge.edgetype
            THEN [res |-> "Collision", engine |-> started]
            ELSE [res |-> "Ok",
                  engine |-> [started EXCEPT !.adjacencylist =
                      set_directed_edge(set_directed_edge(@, src, dst, edge),
                                        dst, src, edge)]]

(* IGraph::add_edge with transaction_id None, on the engine g: the result
   and the engine after the call.  The temporary transaction holds the read
   locks (src, type) and (dst, type) when it is committed. *)
IGraph_add_edge(g, src, dst, edge) ==
    IF ~find_node_by_id(g, src) \/ ~find_node_by_id(g, dst)
    THEN [res |-> "NodeNotFound", engine |-> g]
    ELSE LET temp_txid == g.next_transaction_id + 1
             started == [g EXCEPT !.next_transaction_id = temp_txid,
                                  !.active_transactions = @ \cup {temp_txid}]
             edges == IF src \in DOMAIN g.adjacencylist
                      THEN g.adjacencylist[src] ELSE <<>>
             added == [started EXCEPT !.adjacencylist =
                          set_directed_edge(set_directed_edge(@, src, dst, edge),
                                            dst, src, edge)]
             conflict == \E record \in g.records :
                             /\ record.creator # temp_txid
                             /\ record.creator > temp_txid
                             /\ record.expirer = 0
         IN IF \E i \in DOMAIN edges :
                   edges[i].node # dst /\ edges[i].edgetype = edge.edgetype
            THEN [res |-> "Collision", engine |-> started]
            ELSE [res |-> IF conflict THEN "Abort" ELSE "Ok",
                  engine |-> [added EXCEPT !.active_transactions =
                                               @ \ {temp_txid}]]

(* the history of a transaction an IGraph call begins for itself *)
ImplicitStart(fate, slots) ==
    /\ transactions' = Append(transactions, NewTransactionId)
    /\ began_with' = Append(began_with, active_transactions)
    /\ outcome' = Append(outcome, fate)
    /\ refused' = Append(refused, <<>>)
    /\ read_slots' = Append(read_slots, slots)
    /\ implicit' = implicit \cup {next_transaction_id + 1}

NoImplicitStart == UNCHANGED <<transactions, began_with, outcome, implicit>>

(* a call made with no handle, or with a clone of handle txopt *)
IGraphCall(op, txopt, temp_txid, res) ==
    IF txopt = None /\ res # "NodeNotFound"
    THEN [Call(op, temp_txid, res) EXCEPT !.live = TRUE]
    ELSE Call(op, txopt, res)

(* IGraph::add_node.  With Some(txid) the handle is taken by value, so the
   read lock goes to a copy that is dropped and the handle the client kept
   is as it was. *)
IGraphAddNode(txopt) ==
    LET temp_txid == next_transaction_id + 1
        temp == [NewTransactionId EXCEPT
                     !.read_locks = {<<NewNode, NODE_CREATION>>},
                     !.snapshot = <<create_snapshot(temp_txid)>>]
        conflict == has_read_lock_conflicts(temp_txid, temp)
    IN /\ Cardinality(nodes) < MaxNodes
       /\ nodes' = nodes \cup {NewNode}
       /\ IF txopt # None
          THEN /\ NoImplicitStart
               /\ UNCHANGED <<next_transaction_id, active_transactions, records,
                              refused, read_slots>>
               /\ last' = [IGraphCall("IGraph::add_node", txopt, temp_txid, "Ok")
                               EXCEPT !.a = NewNode]
          ELSE /\ next_transaction_id < MaxTx
               /\ next_transaction_id' = temp_txid
               /\ active_transactions' =
                      (active_transactions \cup {temp_txid}) \ {temp_txid}
               /\ records' = IF conflict
                             THEN rollback_records(records, temp.rollback_actions,
                                                   temp_txid)
                             ELSE records
               /\ ImplicitStart(IF conflict THEN "aborted" ELSE "committed", {})
               /\ last' = [IGraphCall("IGraph::add_node", txopt, temp_txid,
                                      IF conflict THEN "Abort" ELSE "Ok")
                               EXCEPT !.a = IF conflict THEN 0 ELSE NewNode]
       /\ UNCHANGED <<adjacencylist, minted, begun>>

(* IGraph::add_edge *)
IGraphAddEdge(txopt, src, dst, edge_type) ==
    LET temp_txid == next_transaction_id + 1
        implied == IGraph_add_edge(EngineView, src, dst, NewEdge(edge_type))
        called(res) == [IGraphCall("IGraph::add_edge", txopt, temp_txid, res)
                            EXCEPT !.a = src, !.b = dst, !.ty = edge_type,
                                   !.found = EdgeList(src)]
    IN /\ IF ~find_node_by_id(EngineView, src) \/ ~find_node_by_id(EngineView, dst)
          THEN /\ last' = called("NodeNotFound")
               /\ NoImplicitStart
               /\ UNCHANGED <<nodes, adjacencylist, next_transaction_id,
                              active_transactions, records, minted, refused,
                              read_slots>>
          ELSE IF txopt # None
          THEN /\ NoImplicitStart
               /\ UNCHANGED <<nodes, next_transaction_id, active_transactions,
                              records, read_slots>>
               /\ IF has_collision_excluding_destination(src, dst, edge_type)
                  THEN /\ last' = called("Collision")
                       /\ refused' = IF txopt \in active_transactions
                                     THEN [refused EXCEPT ![txopt] =
                                              <<src, dst, edge_type>>]
                                     ELSE refused
                       /\ UNCHANGED <<adjacencylist, minted>>
                  ELSE /\ Len(minted) < MaxEdges
                       /\ adjacencylist' =
                              set_directed_edge(
                                  set_directed_edge(adjacencylist, src, dst,
                                                    NewEdge(edge_type)),
                                  dst, src, NewEdge(edge_type))
                       /\ minted' = Append(minted,
                              [tx |-> txopt, live |-> txopt \in active_transactions,
                               from |-> src, to |-> dst, edgetype |-> edge_type])
                       /\ last' = called("Ok")
                       /\ UNCHANGED refused
          ELSE /\ next_transaction_id < MaxTx
               /\ implied.res # "Collision" => Len(minted) < MaxEdges
               /\ nodes' = implied.engine.nodes
               /\ adjacencylist' = implied.engine.adjacencylist
               /\ next_transaction_id' = implied.engine.next_transaction_id
               /\ active_transactions' = implied.engine.active_transactions
               /\ records' = implied.engine.records
               /\ minted' = IF implied.res = "Collision" THEN minted
                            ELSE Append(minted,
                                     [tx |-> temp_txid, live |-> TRUE,
                                      from |-> src, to |-> dst,
                                      edgetype |-> edge_type])
               /\ ImplicitStart(CASE implied.res = "Ok" -> "committed"
                                  [] implied.res = "Abort" -> "aborted"
                                  [] OTHER -> "active", {})
               /\ last' = called(implied.res)
       /\ UNCHANGED begun

(* IGraph::get_nodes *)
IGraphGetNodes(txopt, origin, search_path) ==
    LET temp_txid == next_transaction_id + 1
        slots == {<<origin, search_path[i]>> : i \in DOMAIN search_path}
        temp == [NewTransactionId EXCEPT
                     !.read_locks = slots,
                     !.snapshot = <<create_snapshot(temp_txid)>>]
        conflict == has_read_lock_conflicts(temp_txid, temp)
        called(res) == [IGraphCall("IGraph::get_nodes", txopt, temp_txid, res)
                            EXCEPT !.a = origin, !.path = search_path]
        answered == [called("Ok") EXCEPT
                         !.out = traverse_with_snapshot(txopt, origin, search_path),
                         !.walked = TypePathWalk(origin, search_path)]
    IN /\ IF ~find_node_by_id(EngineView, origin)
          THEN /\ last' = called("NodeNotFound")
               /\ NoImplicitStart
               /\ UNCHANGED <<next_transaction_id, active_transactions, records,
                              refused, read_slots>>
          ELSE IF txopt # None
          THEN /\ NoImplicitStart
               /\ read_slots' = IF txopt \in active_transactions
                                THEN [read_slots EXCEPT ![txopt] = @ \cup slots]
                                ELSE read_slots
               /\ last' = answered
               /\ UNCHANGED <<next_transaction_id, active_transactions, records,
                              refused>>
          ELSE /\ next_transaction_id < MaxTx
               /\ next_transaction_id' = temp_txid
               /\ active_transactions' =
                      (active_transactions \cup {temp_txid}) \ {temp_txid}
               /\ records' = IF conflict
                             THEN rollback_records(records, temp.rollback_actions,
                                                   temp_txid)
                             ELSE records
               /\ ImplicitStart(IF conflict THEN "aborted" ELSE "committed", slots)
               /\ last' = IF conflict THEN called("Abort") ELSE answered
       /\ UNCHANGED <<nodes, adjacencylist, minted, begun>>

(* one call of a client on the engine through either interface.  Graph's
   start_transaction is the one both interfaces share. *)
NextIGraph ==
    \/ /\ Count(MaxIGraphCalls) /\ StartTransaction
       /\ begun' = [txid |-> next_transaction_id + 1, calls |-> calls,
                    engine |-> EngineView]
       /\ UNCHANGED implicit
    \/ \E t \in ClientHandles : Tick(MaxIGraphCalls) /\ AddNode(t)
    \/ \E t \in ClientHandles, from \in nodes, to \in nodes, ty \in Labels :
           Tick(MaxIGraphCalls) /\ AddEdge(t, from, to, ty)
    \/ \E t \in ClientHandles : Tick(MaxIGraphCalls) /\ CommitTransaction(t)
    \/ \E t \in ClientHandles : Tick(MaxIGraphCalls) /\ AbortTransaction(t)
    \/ \E txopt \in ClientHandles \cup {None} :
           Count(MaxIGraphCalls) /\ IGraphAddNode(txopt)
    \/ \E txopt \in ClientHandles \cup {None}, src \in NodeIds, dst \in NodeIds,
          ty \in Labels :
           Count(MaxIGraphCalls) /\ IGraphAddEdge(txopt, src, dst, ty)
    \/ \E txopt \in ClientHandles \cup {None}, origin \in NodeIds,
          p \in SearchPaths :
           Count(MaxIGraphCalls) /\ IGraphGetNodes(txopt, origin, p)

SpecIGraph == Init /\ [][NextIGraph]_vars

(* ------------------------- notions of the claims ----------------------- *)
(* two transactions are concurrent: each began before the other was retired *)
Concurrent(t, u) ==
    \/ t < u /\ t \in began_with[u]
    \/ u < t /\ u \in began_with[t]

(* the transactions that had committed before t began *)
CommittedBefore(t) ==
    {u \in Handles : u < t /\ u \notin began_with[t] /\ outcome[u] = "committed"}

(* an edge is in the view of t: t wrote it, or its writer had committed
   before t began *)
VisibleEdge(t, id) ==
    minted[id].tx = t \/ minted[id].tx \in CommittedBefore(t)

(* an edge written by another transaction that is active still *)
ForeignUncommitted(t, id) ==
    /\ minted[id].tx # t
    /\ minted[id].live
    /\ minted[id].tx \in active_transactions

(* the edges a transaction added while it was active *)
AddedBy(t) == {id \in DOMAIN minted : minted[id].tx = t /\ minted[id].live}

(* the add_edge calls of an active transaction: those that added an edge
   and the latest one refused *)
Attempts(t) ==
    {<<minted[id].from, minted[id].to, minted[id].edgetype>> : id \in AddedBy(t)}
        \cup (IF refused[t] = <<>> THEN {} ELSE {refused[t]})

(* the (node, edge type) slots of the edges a transaction added *)
Slots(t) ==
    UNION {{<<minted[id].from, minted[id].edgetype>>,
            <<minted[id].to, minted[id].edgetype>>} : id \in AddedBy(t)}

(* two concurrent transactions that added edges with no slot in common *)
DisjointWriters(t, u) ==
    /\ Concurrent(t, u)
    /\ Slots(t) # {} /\ Slots(u) # {}
    /\ Slots(t) \cap Slots(u) = {}

(* an entry of the edge list the last add_edge found that has the type of
   the call and names a neighbour other than its destination *)
Clashes(i) ==
    /\ last.found[i].edgetype = last.ty
    /\ last.found[i].node # last.b

(* ------------------------------- claims -------------------------------- *)

(* C1: an edge that an active transaction added and has not committed is
   never stepped over by a get_nodes call made under another active
   transaction. *)
C1_UncommittedEdgeInvisible ==
    (last.op = "get_nodes" /\ last.live) =>
        \A i \in DOMAIN last.walked : ~ForeignUncommitted(last.tx, last.walked[i].id)

(* C2: snapshot stability: a call made with another handle never changes
   what any read of an active transaction returns. *)
C2_SnapshotStability ==
    [][\A t \in active_transactions :
          last'.tx # t =>
              \A origin \in nodes, p \in SearchPaths :
                  traverse_with_snapshot(t, origin, p)'
                      = traverse_with_snapshot(t, origin, p)]_vars

(* C3: first-committer-wins: of two concurrent transactions that both
   called add_edge with the same source node and edge type and different
   targets, at most one commits successfully. *)
C3_FirstCommitterWins ==
    \A t \in Handles, u \in Handles :
        (/\ Concurrent(t, u)
         /\ \E x \in Attempts(t), y \in Attempts(u) :
                x[1] = y[1] /\ x[3] = y[3] /\ x[2] # y[2])
        => ~(outcome[t] = "committed" /\ outcome[u] = "committed")

(* C4: commit_transaction(T) returns Abort when T read the slot (n, ty) with
   get_nodes and a concurrent transaction added an edge of type ty on n and
   committed before T. *)
C4_ReadWriteConflictAborts ==
    (/\ last.op = "commit_transaction" /\ last.live
     /\ \E u \in Handles, slot \in read_slots[last.tx] :
            /\ Concurrent(u, last.tx)
            /\ outcome[u] = "committed"
            /\ slot \in Slots(u))
    => last.res = "Abort"

(* C5: the commit of a transaction succeeds when it and a concurrent
   transaction added edges that have no (node, edge type) slot in common,
   whichever of the two commits first. *)
C5_DisjointWritersCommit ==
    (/\ last.op = "commit_transaction" /\ last.live
     /\ \E u \in Handles : DisjointWriters(last.tx, u))
    => last.res = "Ok"

(* C6: edge-type uniqueness: no node has two edge halves of the same edge
   type that name two different neighbours. *)
C6_EdgeTypeUnique ==
    \A n \in DOMAIN adjacencylist :
        \A i \in DOMAIN adjacencylist[n], j \in DOMAIN adjacencylist[n] :
            adjacencylist[n][i].edgetype = adjacencylist[n][j].edgetype
                => adjacencylist[n][i].node = adjacencylist[n][j].node

(* C7: add_edge(T, a, c, t) returns Collision whenever a has an edge of type
   t in the view of T whose neighbour is not c. *)
C7_CollisionOnOtherNeighbour ==
    (/\ last.op = "add_edge"
     /\ \E i \in DOMAIN last.found :
            Clashes(i) /\ VisibleEdge(last.tx, last.found[i].id))
    => last.res = "Collision"

(* add_edge was refused over an edge the same transaction added before *)
C7_Witness ==
    /\ last.op = "add_edge" /\ last.live /\ last.res = "Collision"
    /\ \E i \in DOMAIN last.found :
           Clashes(i) /\ minted[last.found[i].id].tx = last.tx

(* C8: add_edge(a, b, t) returns Collision when a has an edge of type t to
   b already. *)
C8_DuplicateRefused ==
    (/\ last.op = "add_edge"
     /\ \E i \in DOMAIN last.found :
            last.found[i].edgetype = last.ty /\ last.found[i].node = last.b)
    => last.res = "Collision"

(* C9: add_edge of an active transaction T returns Collision only over an
   edge that is not the uncommitted write of another transaction. *)
C9_CollisionWithinSnapshot ==
    (last.op = "add_edge" /\ last.live /\ last.res = "Collision")
    => \E i \in DOMAIN last.found :
           Clashes(i) /\ ~ForeignUncommitted(last.tx, last.found[i].id)

(* C10: add_edge(T, a, b, t) succeeds whenever no edge on a has type t. *)
C10_OtherTypesDoNotCollide ==
    (/\ last.op = "add_edge"
     /\ \A i \in DOMAIN last.found : last.found[i].edgetype # last.ty)
    => last.res = "Ok"

(* add_edge succeeded on a source node that had edges of another type *)
C10_Witness ==
    /\ last.op = "add_edge" /\ last.res = "Ok"
    /\ last.found # <<>>
    /\ \A i \in DOMAIN last.found : last.found[i].edgetype # last.ty

(* the edges that have node n as one of their two ends *)
Touching(n) ==
    {id \in DOMAIN minted : minted[id].from = n \/ minted[id].to = n}

(* the end of edge id that is across from node n *)
OtherEnd(id, n) == IF minted[id].from = n THEN minted[id].to ELSE minted[id].from

(* C11: symmetry: every edge half stored on a node a that names b with type
   t and edge id e has a companion half on b that names a with the same t
   and e; and a get_nodes(a, [t]) on a node whose only edge has type t
   returns the node at the other end of that edge. *)
C11_Symmetry ==
    /\ \A n \in DOMAIN adjacencylist :
           \A i \in DOMAIN adjacencylist[n] :
               LET half == adjacencylist[n][i]
               IN \E j \in DOMAIN EdgeList(half.node) :
                      EdgeList(half.node)[j] = [half EXCEPT !.node = n]
    /\ (/\ last.op = "get_nodes"
        /\ Len(last.path) = 1
        /\ \E id \in DOMAIN minted :
               Touching(last.a) = {id} /\ minted[id].edgetype = last.path[1])
       => \E id \in Touching(last.a) : last.out = <<OtherEnd(id, last.a)>>

(* a read from the destination of the only edge returned its source *)
C11_Witness ==
    /\ last.op = "get_nodes"
    /\ \E id \in DOMAIN minted :
           /\ Touching(last.a) = {id}
           /\ minted[id].to = last.a /\ minted[id].from # last.a
           /\ last.out = <<minted[id].from>>

(* C12: rollback is complete: once a transaction is aborted (by
   abort_transaction or by a commit_transaction that returned Abort), no
   edge half it added is left on any node and no record it created is
   visible to any other transaction. *)
C12_RollbackComplete ==
    \A t \in Handles :
        outcome[t] = "aborted" =>
            /\ \A n \in DOMAIN adjacencylist :
                   \A i \in DOMAIN adjacencylist[n] :
                       adjacencylist[n][i].id \notin AddedBy(t)
            /\ \A r \in records :
                   r.creator = t =>
                       \A u \in Handles \ {t} : ~record_is_visible(u, r)

(* C13: committed and aborted are terminal: add_node, add_edge, get_nodes
   and commit_transaction called with the handle of a transaction that is
   no longer active return Abort. *)
C13_RetiredHandleFails ==
    (/\ last.op \in {"add_node", "add_edge", "get_nodes", "commit_transaction"}
     /\ ~last.live)
    => last.res = "Abort"

(* C14: no TxId of the reserved range 1..3 is issued, and no record has a
   creator below 4. *)
C14_ReservedTxIds ==
    /\ \A t \in Handles : t >= 4
    /\ \A r \in records : r.creator >= 4

(* C15: TxIds are sequential and never reused: every call that begins a
   transaction, start_transaction or an IGraph call with no transaction,
   issues the counter plus one, an id no transaction had before, and no
   other call moves the counter. *)
C15_TxIdsSequential ==
    [][LET issues == \/ last'.op = "start_transaction"
                     \/ Len(transactions') > Len(transactions)
       IN /\ issues => /\ last'.tx = next_transaction_id + 1
                       /\ next_transaction_id' = next_transaction_id + 1
                       /\ last'.tx \notin Handles
          /\ ~issues => next_transaction_id' = next_transaction_id]_vars

(* start_transaction issued the third id after an IGraph call had issued
   one for itself and a transaction had been aborted *)
C15_Witness ==
    /\ last.op = "start_transaction" /\ last.tx >= 3
    /\ implicit # {}
    /\ \E u \in Handles : outcome[u] = "aborted"

(* C16: a TxId is in the active set if and only if it was issued and has
   not been committed or aborted since: it is active right after
   start_transaction and not active after commit_transaction, whatever that
   returned, or abort_transaction. *)
C16_ActiveIffNotRetired ==
    /\ active_transactions \subseteq Handles
    /\ \A t \in Handles : t \in active_transactions <=> outcome[t] = "active"
    /\ last.op = "start_transaction" => last.tx \in active_transactions
    /\ last.op \in {"commit_transaction", "abort_transaction"}
           => last.tx \notin active_transactions

(* the commit of an active transaction returned Abort *)
C16_Witness ==
    /\ last.op = "commit_transaction" /\ last.live /\ last.res = "Abort"
    /\ outcome[last.tx] = "aborted"

(* an engine with the edge ids left out of its edge halves *)
Unnamed(g) ==
    [g EXCEPT !.adjacencylist =
        [n \in DOMAIN g.adjacencylist |->
            [i \in DOMAIN g.adjacencylist[n] |->
                [node |-> g.adjacencylist[n][i].node,
                 edgetype |-> g.adjacencylist[n][i].edgetype]]]]

(* the last three calls were start_transaction, an add_edge with the handle
   it returned that added an edge, and the commit_transaction of that handle *)
BeganAddedCommitted ==
    /\ last.op = "commit_transaction" /\ last.live
    /\ last.tx = begun.txid /\ calls = begun.calls + 3
    /\ minted # <<>> /\ minted[Len(minted)].tx = last.tx

(* C17: implicit-transaction equivalence: when start_transaction,
   add_edge(tx, a, b, t), commit_transaction(tx) are called in a row and the
   commit succeeds, the engine is in the state in which IGraph's
   add_edge(None, a, b, t), called instead, returns Ok and leaves it: the
   same nodes, edge halves up to the edge ids, active set, TxId counter and
   records. *)
C17_ImplicitEquivalence ==
    (BeganAddedCommitted /\ last.res = "Ok") =>
        LET added == minted[Len(minted)]
            implied == IGraph_add_edge(begun.engine, added.from, added.to,
                                       [id |-> 0, edgetype |-> added.edgetype])
        IN /\ implied.res = "Ok"
           /\ Unnamed(implied.engine) = Unnamed(EngineView)

(* the three calls were made and added an edge between two nodes *)
C17_Witness ==
    /\ BeganAddedCommitted /\ last.res = "Ok"
    /\ minted[Len(minted)].from # minted[Len(minted)].to

(* the ways add_edge can be called *)
AddEdgeCalls == {"add_edge", "IGraph::add_edge"}

(* C18: a failed mutation leaves the graph and the version store unchanged:
   an add_edge that returns NodeNotFound or Collision adds or modifies no
   node, no edge half and no record, and adds no entry to the read set of
   any handle. *)
C18_FailedMutationChangesNothing ==
    [][(last'.op \in AddEdgeCalls /\ last'.res \in {"NodeNotFound", "Collision"})
       => /\ nodes' = nodes
          /\ adjacencylist' = adjacencylist
          /\ records' = records
          /\ \A t \in Handles :
                 transactions'[t].read_locks = transactions[t].read_locks]_vars

(* add_edge was refused with Collision for an active transaction whose
   handle holds read locks *)
C18_Witness ==
    /\ last.op = "add_edge" /\ last.live /\ last.res = "Collision"
    /\ transactions[last.tx].read_locks # {}

(* the clients' transactions that hold the creation lock of node n *)
CreatedBy(n) ==
    {t \in ClientHandles : <<n, NODE_CREATION>> \in transactions[t].read_locks}

(* C19: IGraph's add_edge and get_nodes, called with an active transaction,
   return NodeNotFound when a node supplied was created by another
   transaction that is active still. *)
C19_InvisibleNodeNotFound ==
    (/\ last.op \in {"IGraph::add_edge", "IGraph::get_nodes"}
     /\ last.tx \in ClientHandles /\ last.live
     /\ \E n \in {last.a, last.b} :
            \E u \in CreatedBy(n) : u # last.tx /\ outcome[u] = "active")
    => last.res = "NodeNotFound"

(* C20: add_edge does not accept NODE_CREATION as edge type: such a call
   does not return Ok and no edge half carries that type. *)
C20_ReservedLabelRefused ==
    /\ (last.op \in AddEdgeCalls /\ last.ty = NODE_CREATION) => last.res # "Ok"
    /\ \A n \in DOMAIN adjacencylist :
           \A i \in DOMAIN adjacencylist[n] :
               adjacencylist[n][i].edgetype # NODE_CREATION

(* the nodes of a result *)
Elements(out) == {out[i] : i \in DOMAIN out}

(* the neighbours node n has by an edge half of type ty *)
Neighbours(n, ty) ==
    {EdgeList(n)[i].node :
        i \in {j \in DOMAIN EdgeList(n) : EdgeList(n)[j].edgetype = ty}}

(* the nodes a path leads to from node n, its types taken in the order
   given, every edge half counted *)
RECURSIVE Reached(_, _)
Reached(n, path) ==
    IF path = <<>> THEN {n}
    ELSE UNION {Reached(m, Tail(path)) : m \in Neighbours(n, Head(path))}

(* a get_nodes call of an active transaction on a graph all of whose edges
   are in its view *)
ReadOfWholeGraph ==
    /\ last.op = "get_nodes" /\ last.live
    /\ \A id \in DOMAIN minted : VisibleEdge(last.tx, id)

(* C21: single-hop traversal is complete: get_nodes(T, origin, [t]), on a
   graph all of whose edges are visible to T, returns exactly the
   neighbours origin has by an edge of type t, whatever other edges origin
   has and in whatever order they were added. *)
C21_SingleHopComplete ==
    (ReadOfWholeGraph /\ Len(last.path) = 1)
    => Elements(last.out) = Neighbours(last.a, last.path[1])

(* C22: multi-hop traversal takes the edge types in the order given and
   returns the nodes reached after the last hop: for a path of two types,
   the union, over the neighbours by the first type, of their neighbours by
   the second. *)
C22_MultiHopInOrder ==
    (ReadOfWholeGraph /\ Len(last.path) = 2)
    => Elements(last.out) = Reached(last.a, last.path)

(* C23: get_nodes with the empty path, called by an active transaction on a
   node it created itself, returns that node. *)
C23_EmptyPathReturnsOrigin ==
    (/\ last.op = "get_nodes" /\ last.live
     /\ last.path = <<>>
     /\ <<last.a, NODE_CREATION>> \in transactions[last.tx].read_locks)
    => last.res = "Ok" /\ last.out = <<last.a>>

(* C24: the result of get_nodes holds no node twice. *)
C24_ResultHasNoDuplicates ==
    last.op = "get_nodes" =>
        \A i \in DOMAIN last.out, j \in DOMAIN last.out :
            last.out[i] = last.out[j] => i = j

(* C25: commit_transaction(T) does not return Abort on account of a write
   whose creator is active still: when every record of the store that T did
   not create itself has a creator that is active, the commit of T succeeds. *)
C25_UncommittedWritesDoNotAbort ==
    (/\ last.op = "commit_transaction" /\ last.live
     /\ \A r \in records :
            r.creator # last.tx => r.creator \in active_transactions)
    => last.res = "Ok"

(* the transactions that were active still, or not begun yet, when t began *)
NotRetiredBefore(t) == {u \in Handles : u # t /\ (u > t \/ u \in began_with[t])}

(* C26: the snapshot of a transaction is frozen at start_transaction: it
   holds no record whose creator was active still, or had not begun yet,
   when the transaction began, however late the transaction performs its
   first operation. *)
C26_SnapshotFrozenAtStart ==
    \A t \in Handles :
        transactions[t].snapshot # <<>> =>
            \A r \in transactions[t].snapshot[1] :
                r.creator \notin NotRetiredBefore(t)

(* C27: every successful mutation records its slots in the read set of the
   handle it was called with: add_node the slot (n, NODE_CREATION) of the
   node n it returns, add_edge(a, b, t) the slots (a, t) and (b, t). *)
C27_MutationsRecordSlots ==
    /\ last.op = "add_node"
           => <<last.a, NODE_CREATION>> \in transactions[last.tx].read_locks
    /\ (last.op = "add_edge" /\ last.res = "Ok")
           => {<<last.a, last.ty>>, <<last.b, last.ty>>}
                  \subseteq transactions[last.tx].read_locks

(* an active transaction added an edge between two nodes, one of which it
   created *)
C27_Witness ==
    /\ last.op = "add_edge" /\ last.res = "Ok" /\ last.live
    /\ last.a # last.b
    /\ <<last.a, NODE_CREATION>> \in transactions[last.tx].read_locks

(* C28: a traversal records each edge type against the node its hop is taken
   from: a get_nodes with a path of one type given twice, whose first hop
   leads to a node n, leaves the slot (n, type) in the read set. *)
C28_HopsRecordedAtTheirNode ==
    (/\ last.op = "get_nodes" /\ last.live
     /\ Len(last.path) = 2 /\ last.path[1] = last.path[2]
     /\ last.walked # <<>>)
    => <<last.walked[1].node, last.path[2]>> \in transactions[last.tx].read_locks

(* the slots a call of the IGraph interface reads or writes *)
CalledSlots ==
    CASE last.op = "IGraph::add_node" -> {<<last.a, NODE_CREATION>>}
      [] last.op = "IGraph::add_edge" -> {<<last.a, last.ty>>, <<last.b, last.ty>>}
      [] last.op = "IGraph::get_nodes" ->
             {<<last.a, last.path[i]>> : i \in DOMAIN last.path}
      [] OTHER -> {}

(* C29: the slots that a call of the IGraph interface with Some(tx) reads or
   writes belong to tx: when the call has returned Ok for an active tx, the
   read set the engine validates at the commit of tx holds them. *)
C29_FacadeSlotsBelongToTransaction ==
    (last.tx \in ClientHandles /\ last.live /\ last.res = "Ok")
    => CalledSlots \subseteq transactions[last.tx].read_locks

(* C30: when a call of the IGraph interface with None has returned, with Ok
   or with an error, the transaction it had started is retired: no implicit
   transaction is in the active set. *)
C30_ImplicitTransactionRetired ==
    \A t \in implicit : t \notin active_transactions

(* C31: a commit_transaction(T) that returns Ok changes the active set and
   nothing else: T is taken out of the active set, and the nodes, the
   adjacency lists and the records, each with its creator and its expirer,
   are what they were before the call. *)
C31_CommitChangesActiveSetOnly ==
    [][(last'.op = "commit_transaction" /\ last'.res = "Ok")
       => /\ active_transactions' = active_transactions \ {last'.tx}
          /\ nodes' = nodes
          /\ adjacencylist' = adjacencylist
          /\ records' = records]_vars

(* an active transaction that has created a node, an edge and a record was
   committed with Ok *)
C31_Witness ==
    /\ last.op = "commit_transaction" /\ last.live /\ last.res = "Ok"
    /\ last.tx \notin active_transactions
    /\ \E r \in records : r.creator = last.tx
    /\ \E i \in DOMAIN minted : minted[i].tx = last.tx

(* C32: no record has an expirer equal to its creator, whatever add_record,
   delete_record, update_record, commit_transaction and abort_transaction
   calls were made, a transaction that deletes or updates a record of its
   own included. *)
C32_ExpirerIsNotCreator ==
    \A r \in records : r.expirer # r.creator

(* the TxIds that commit_transaction or abort_transaction has taken out of
   the active set *)
Retired == {u \in Handles : outcome[u] # "active"}

(* C33, as the claim states it: the active set holds no TxId smaller than a
   TxId that commit_transaction or abort_transaction has taken out of it, in
   whatever order transactions that were started together are retired. *)
C33_ActiveIdsAboveRetiredIds ==
    \A t \in active_transactions : \A u \in Retired : u < t

(* C33, amended: transaction ids only move forward: the TxId that
   start_transaction puts into the active set is greater than every TxId
   that commit_transaction or abort_transaction has taken out of it, and no
   retired TxId is above the counter new ids are drawn from. *)
C33_IssuedIdsAboveRetiredIds ==
    /\ \A u \in Retired : u <= next_transaction_id
    /\ last.op = "start_transaction" =>
           /\ last.tx \in active_transactions
           /\ \A u \in Retired : u < last.tx

(* a transaction was started after a younger transaction had been retired
   while an older one stayed active *)
C33_Witness ==
    /\ last.op = "start_transaction"
    /\ \E t \in active_transactions : \E u \in Retired : t < u /\ u < last.tx

(* the versions an active transaction has just expired with a successful
   delete_record *)
JustDeleted ==
    IF last.op = "delete_record" /\ last.res = "Ok" /\ last.live
    THEN {r \in records : r.element = last.a /\ r.expirer = last.tx}
    ELSE {}

(* C34: a delete hides the record: after a successful delete_record(T, id)
   the version deleted is invisible to T and the store holds no copy of it
   with expirer 0. *)
C34_DeleteHidesRecord ==
    \A r \in JustDeleted :
        /\ ~record_is_visible(last.tx, r)
        /\ [r EXCEPT !.expirer = 0] \notin records

(* the records with element id `id` that transaction t sees and that another
   transaction, active still, has expired *)
ExpiredByAnother(t, id) ==
    {r \in records : /\ r.element = id
                     /\ record_is_visible(t, r)
                     /\ r.expirer \notin {0, t}
                     /\ r.expirer \in active_transactions}

(* C35: delete_record(T, id) returns TransactionLocked when a record with
   element id `id` that T sees has been expired by another transaction that
   is active still; the call then modifies no record and adds nothing to the
   undo log of T. *)
C35_LockedDeleteChangesNothing ==
    [][(last'.op = "delete_record" /\ ExpiredByAnother(last'.tx, last'.a) # {})
       => /\ last'.res = "TransactionLocked"
          /\ records' = records
          /\ transactions' = transactions]_vars

(* an active transaction called delete_record on an element that another
   active transaction had expired, and was refused *)
C35_Witness ==
    /\ last.op = "delete_record" /\ last.live
    /\ last.res = "TransactionLocked"
    /\ ExpiredByAnother(last.tx, last.a) # {}

(* C36: delete_record(T, id) and update_record(T, id, _) return
   ElementNotFound when T sees no record with element id `id`, the element T
   itself has deleted included: a call that follows a successful
   delete_record(T, id) of the active T returns ElementNotFound and leaves
   the records and the undo log of T as they were. *)
C36_DeletedElementNotFound ==
    [][(/\ last.op = "delete_record" /\ last.res = "Ok" /\ last.live
        /\ last'.op \in {"delete_record", "update_record"}
        /\ last'.tx = last.tx /\ last'.a = last.a)
       => /\ last'.res = "ElementNotFound"
          /\ records' = records
          /\ transactions' = transactions]_vars

====
